---- MODULE Spec2Model ----
(***************************************************************************)
(* pod5-random-access: the index build scheduler (build.py) and the index  *)
(* registry (reader.py), over one shared file system.                      *)
(*                                                                         *)
(* A container file is a path 1..NumPaths; the numeric order of the paths  *)
(* is the order sorted() gives them.  The artifact of a path is the file   *)
(* "<path>.idx"; artifact[p] = 0 when it is absent, and otherwise counts   *)
(* how many times it has been written.  The directory holds the first N    *)
(* paths, for every N up to NumPaths.  Whether an external build_index,    *)
(* save_index or load_index call raises is the environment's choice at     *)
(* each call.                                                              *)
(***************************************************************************)
EXTENDS Integers, Sequences, FiniteSets, TLC

\* ---- bounds of the model ------------------------------------------------
NumPaths == 3
MaxWorkers == 2
MaxCalls == 2
MaxExt == 1
MaxItems == 3
NumIds == 2
NumThreads == 2

\* the last path has the base name of the first one (it lies in a subdirectory)
NumNames == NumPaths - 1
\* os.cpu_count() answers None or 1..MaxCpu
MaxCpu == MaxWorkers

Paths == 1..NumPaths
Names == 1..NumNames

\* max_workers=None / os.cpu_count() returning None
NoneInt == -1

VARIABLES
  files,        \* the container files present under the directory
  argsort_ties, \* how np.argsort's default kind orders equal keys in this build
  work,         \* the client's list of work items, which plan_fetch_order is given
  artifact,     \* the file system: path -> 0 (no .idx) or its write count
  ext,          \* artifacts written so far by other processes
  bpc,          \* build_pod5_index: "idle" | "running" | "returned" | "raised"
  calls,        \* build_pod5_index calls started so far
  force,        \* the force argument of the current call
  max_workers,  \* the worker count decided at lines 79-86 (0: not decided)
  call,         \* the build_pod5_index call the last step made: its max_workers
                \* argument and what it asked of the environment
  targets,      \* the task list of the current call
  tstat,        \* per task: "pending" | "building" | "hung" | "built" | "ok" | "skipped" | "failed"
  collected,    \* tasks whose future the as_completed loop has handled
  logged,       \* tasks logged by logger.error at lines 102-104
  result,       \* the returned list
  error,        \* the exception raised to the caller ("" when none)
  artAtScan,    \* history: the file system as the call's scan saw it
  prevClean,    \* history: a call before the current one returned with no failure
  save_index,   \* Pod5RandomAccessReader.save_index, the instance default
  pod5_paths,   \* Pod5RandomAccessReader._pod5_paths: name -> path
  path_keys,    \* the insertion order of the keys of _pod5_paths
  indexers,     \* Pod5RandomAccessReader._indexers: name -> handle
  ev,           \* the reader operation the last step performed, and its outcome
  loadsSince,   \* history: load_index() successes per name in this reader object
  pinned,       \* history: name -> the handle a registration with a failed save left
  threads       \* per client thread: where it stands in _get_indexer, and its locals

bvars == <<bpc, calls, force, max_workers, targets,
           tstat, collected, logged, result, error, artAtScan, prevClean>>
rvars == <<save_index, pod5_paths, path_keys, indexers, loadsSince, pinned>>
\* what no operation changes
env == <<files, argsort_ties, work>>
vars == <<env, artifact, ext, bvars, rvars, ev, call, threads>>

\* ---- helpers --------------------------------------------------------------
Min(S) == CHOOSE x \in S : \A y \in S : x <= y
Max(S) == CHOOSE x \in S : \A y \in S : x >= y

RECURSIVE SortedSeq(_)
\* sorted(pod5_dir.rglob("*.pod5"))
SortedSeq(S) == IF S = {} THEN <<>> ELSE <<Min(S)>> \o SortedSeq(S \ {Min(S)})

Range(s) == {s[i] : i \in DOMAIN s}

\* index_path.exists()
Exists(p) == artifact[p] # 0

\* ---- the reader operation of a step -------------------------------------------
\* op: the method; name, path: its subject; outcome: "ok" or the exception;
\* ext: the Pod5Index methods it invoked, in order; ret: the identity of the
\* handle it returned or stored (0: none); save_arg: add_pod5's save_index
\* argument, where the call came to read it; save_failed: save_index() raised
\* and was logged as a warning; args: the (key, filenames, uuids)
\* arguments of plan_fetch_order; order: its final_order;
\* out: the list an operation returned, or the pairs an iteration yielded
\* an optional list argument left at None
NoneList == [given |-> FALSE, val |-> <<>>]
NoArgs == [key |-> FALSE, filenames |-> NoneList, uuids |-> NoneList]
NoEv == [op |-> "none", name |-> 0, path |-> 0, outcome |-> "ok", ext |-> <<>>,
         ret |-> 0, save_arg |-> "none", save_failed |-> FALSE, dropped |-> 0,
         args |-> NoArgs, order |-> <<>>, out |-> <<>>]
\* the last step made no build_pod5_index call.  Of a call: mw, the
\* max_workers argument (NoneInt: None); probes, the _is_rotational() calls
\* it made; rot, what the probe answered ("unprobed" when not asked); cpu,
\* what os.cpu_count() answered at line 85 (0: not asked)
NoCall == [op |-> "none", mw |-> NoneInt, probes |-> 0, rot |-> "unprobed", cpu |-> 0]

\* ---- build.py -------------------------------------------------------------
\* lines 61-67: all files if force, otherwise the files lacking an artifact
SelectTargetsNoFilter(all_pod5, f) == all_pod5
SelectTargets(all_pod5, f) ==
  IF f THEN all_pod5 ELSE SelectSeq(all_pod5, LAMBDA p : ~Exists(p))

\* lines 79-86: the worker count; rot is the probe's answer, cpu os.cpu_count()
DecideWorkersIgnoreProbe(mw, rot, cpu) ==
  IF mw # NoneInt THEN mw ELSE IF cpu = NoneInt \/ cpu = 0 THEN 1 ELSE cpu
DecideWorkers(mw, rot, cpu) ==
  IF mw # NoneInt THEN mw
  ELSE IF rot \in {"none", "true"} THEN 1
  ELSE IF cpu = NoneInt \/ cpu = 0 THEN 1 ELSE cpu

\* line 79: the probe runs only when max_workers is None
NeedsProbe(mw) == mw = NoneInt

\* line 89: the sequential loop runs on the calling thread
Sequential == max_workers = 1

InFlightOnlyBuilding == {i \in DOMAIN tstat : tstat[i] = "building"}
\* the tasks that hold a worker: build_index() is running, or will never
\* return ("hung"), or save_index() is due
InFlight == {i \in DOMAIN tstat : tstat[i] \in {"building", "hung", "built"}}
\* line 94, ThreadPoolExecutor(max_workers=max_workers), and the loop of line
\* 90: a task starts when a worker (or the caller's loop) is free
SlotFreeSinglePool == InFlight = {}
SlotFree == Cardinality(InFlight) < max_workers
Terminal == {i \in DOMAIN tstat : tstat[i] \in {"ok", "skipped", "failed"}}

ResetCall ==
  /\ collected' = {}
  /\ logged' = {}
  /\ result' = <<>>
  /\ artAtScan' = artifact
  /\ prevClean' = (bpc = "returned" /\ \A i \in DOMAIN tstat : tstat[i] # "failed")

\* lines 56-58 and 69-71: no file found, or no file left to build
NothingToBuildNever(all_pod5, tg) == FALSE
NothingToBuild(all_pod5, tg) == all_pod5 = <<>> \/ tg = <<>>

\* lines 53 and 56-71: the call ends before the worker count is decided
NoDispatch(mw) ==
  /\ targets' = <<>>
  /\ tstat' = <<>>
  /\ max_workers' = 0
  /\ call' = [NoCall EXCEPT !.op = "build_pod5_index", !.mw = mw]

\* build_pod5_index, lines 51-95: from the call to the dispatch of the tasks.
\* isdir: pod5_dir.is_dir(); mw, f: the arguments; rot: what _is_rotational
\* would answer; cpu: what os.cpu_count() would answer.
BuildCall(isdir, mw, f, rot, cpu) ==
  /\ bpc \in {"idle", "returned", "raised"}
  /\ calls < MaxCalls
  \* the answer of a probe that is not made is not chosen
  /\ ~(isdir /\ NeedsProbe(mw)) => rot = "none"
  /\ calls' = calls + 1
  /\ ev' = NoEv
  /\ force' = f
  /\ ResetCall
  /\ UNCHANGED <<rvars, env, threads, artifact, ext>>
  /\ LET all_pod5 == SortedSeq(files)
         tg == SelectTargets(all_pod5, f)
         probe == NeedsProbe(mw)
         w == DecideWorkers(mw, IF probe THEN rot ELSE "unprobed", cpu)
     IN  IF ~isdir
         THEN bpc' = "raised" /\ error' = "NotADirectoryError" /\ NoDispatch(mw)
         ELSE IF NothingToBuild(all_pod5, tg)
         THEN bpc' = "returned" /\ error' = "" /\ NoDispatch(mw)
         ELSE /\ targets' = tg
              /\ tstat' = [i \in 1..Len(tg) |-> "pending"]
              /\ call' = [op |-> "build_pod5_index", mw |-> mw,
                           probes |-> IF probe THEN 1 ELSE 0,
                           rot |-> IF probe THEN rot ELSE "unprobed",
                           cpu |-> IF probe /\ rot = "false" THEN cpu ELSE 0]
              /\ max_workers' = w
              \* ThreadPoolExecutor(max_workers=0) raises ValueError
              /\ bpc' = IF w <= 0 THEN "raised" ELSE "running"
              /\ error' = IF w <= 0 THEN "ValueError" ELSE ""

\* _build_single lines 16-19: the artifact is looked for again when the task
\* runs; the task returns at once if it is there
StartStatusFromScan(p) == IF artAtScan[p] # 0 THEN "skipped" ELSE "building"
StartStatus(p) == IF Exists(p) THEN "skipped" ELSE "building"

\* _build_single lines 16-19 as a worker (or the loop) takes the next task:
\* tasks start in list order, at most max_workers of them in flight
TaskStart(i) ==
  /\ bpc = "running"
  /\ i \in DOMAIN tstat
  /\ tstat[i] = "pending"
  /\ ev' = NoEv
  /\ call' = NoCall
  /\ \A j \in 1..(i - 1) : tstat[j] # "pending"
  /\ SlotFree
  /\ tstat' = [tstat EXCEPT ![i] = StartStatus(targets[i])]
  /\ UNCHANGED <<rvars, env, threads, artifact, ext, bpc, calls, force,
                 max_workers, targets, collected, logged,
                 result, error, artAtScan, prevClean>>

\* lines 90-91: an exception of _build_single leaves the loop and the call
SeqRaiseSwallowed(i) ==
  /\ tstat' = [tstat EXCEPT ![i] = "failed"]
  /\ UNCHANGED <<bpc, error>>
SeqRaise(i) ==
  /\ tstat' = [tstat EXCEPT ![i] = "failed"]
  /\ bpc' = "raised"
  /\ error' = "BuildError"

\* line 96: in the pool the exception is kept in the task's future
ParRaise(i) ==
  /\ tstat' = [tstat EXCEPT ![i] = "failed"]
  /\ UNCHANGED <<bpc, error>>

TaskRaise(i) == IF Sequential THEN SeqRaise(i) ELSE ParRaise(i)

\* _build_single lines 21-22: Pod5Index(path).build_index(); ok: it did not raise
TaskBuild(i, ok) ==
  /\ bpc = "running"
  /\ i \in DOMAIN tstat
  /\ tstat[i] = "building"
  /\ ev' = NoEv
  /\ call' = NoCall
  /\ IF ~ok
     THEN TaskRaise(i)
     ELSE tstat' = [tstat EXCEPT ![i] = "built"] /\ UNCHANGED <<bpc, error>>
  /\ UNCHANGED <<rvars, env, threads, artifact, ext, calls, force,
                 max_workers, targets, collected, logged,
                 result, artAtScan, prevClean>>

\* _build_single line 22: a build_index() call that never returns
TaskHang(i) ==
  /\ bpc = "running"
  /\ i \in DOMAIN tstat
  /\ tstat[i] = "building"
  /\ ev' = NoEv
  /\ call' = NoCall
  /\ tstat' = [tstat EXCEPT ![i] = "hung"]
  /\ UNCHANGED <<rvars, env, threads, artifact, ext, bpc, calls, force,
                 max_workers, targets, collected, logged,
                 result, error, artAtScan, prevClean>>

\* _build_single line 23: indexer.save_index(index_path); ok: it did not raise
TaskSave(i, ok) ==
  /\ bpc = "running"
  /\ i \in DOMAIN tstat
  /\ tstat[i] = "built"
  /\ ev' = NoEv
  /\ call' = NoCall
  /\ IF ok
     THEN /\ artifact' = [artifact EXCEPT ![targets[i]] = @ + 1]
          /\ tstat' = [tstat EXCEPT ![i] = "ok"]
          /\ UNCHANGED <<bpc, error>>
     ELSE TaskRaise(i) /\ UNCHANGED artifact
  /\ UNCHANGED <<rvars, env, threads, ext, calls, force,
                 max_workers, targets, collected, logged,
                 result, artAtScan, prevClean>>

\* lines 97-104: the as_completed loop handles one finished future
CollectFailFast(i) ==
  /\ collected' = collected \cup {i}
  /\ IF tstat[i] = "failed"
     THEN bpc' = "raised" /\ error' = "BuildError" /\ UNCHANGED logged
     ELSE UNCHANGED <<bpc, error, logged>>
CollectOne(i) ==
  /\ collected' = collected \cup {i}
  /\ logged' = IF tstat[i] = "failed" THEN logged \cup {i} ELSE logged
  /\ UNCHANGED <<bpc, error>>

Collect(i) ==
  /\ bpc = "running"
  /\ ~Sequential
  /\ i \in Terminal \ collected
  /\ ev' = NoEv
  /\ call' = NoCall
  /\ CollectOne(i)
  /\ UNCHANGED <<rvars, env, threads, artifact, ext, calls, force,
                 max_workers, targets, tstat,
                 result, artAtScan, prevClean>>

\* line 92 (the loop is over) and line 106 (every future was handled and the
\* executor's exit has joined the workers)
ReturnEarly == Terminal # {}
ReturnWithoutJoin == \A i \in DOMAIN tstat : tstat[i] # "pending"
ReturnReady ==
  IF Sequential THEN Terminal = DOMAIN tstat ELSE collected = DOMAIN tstat

BuildReturn ==
  /\ bpc = "running"
  /\ ReturnReady
  /\ ev' = NoEv
  /\ call' = NoCall
  /\ bpc' = "returned"
  /\ result' = targets
  /\ UNCHANGED <<rvars, env, threads, artifact, ext, calls, force,
                 max_workers, targets, tstat, collected,
                 logged, error, artAtScan, prevClean>>

\* another process (a racing build_pod5_index or reader) creates an artifact
\* that was missing
ExternalCreate(p) ==
  /\ p \in files
  /\ ~Exists(p)
  /\ ext < MaxExt
  /\ ext' = ext + 1
  /\ ev' = NoEv
  /\ call' = NoCall
  /\ artifact' = [artifact EXCEPT ![p] = @ + 1]
  /\ UNCHANGED <<rvars, env, threads, bvars>>

\* another process (or the user) deletes an artifact
ExternalDelete(p) ==
  /\ p \in files
  /\ Exists(p)
  /\ ev' = NoEv
  /\ call' = NoCall
  /\ artifact' = [artifact EXCEPT ![p] = 0]
  /\ UNCHANGED <<rvars, env, threads, ext, bvars>>

\* ---- reader.py ------------------------------------------------------------
\* line 140: name = pod5_path.name; paths in different directories share names
BaseName(p) == ((p - 1) % NumNames) + 1

\* d[k] = v on a dict
DictSetForgets(d, k, v) == [x \in {k} |-> v]
DictSet(d, k, v) == [x \in (DOMAIN d) \cup {k} |-> IF x = k THEN v ELSE d[x]]
\* a dict keeps a key's first insertion position
KeyAppend(keys, k) == IF k \in Range(keys) THEN keys ELSE Append(keys, k)

\* lines 88 and 106, Pod5Index(str(pod5_path)): a new object.  A handle is
\* identified by the name it is stored under and a generation, 1 or 2, that
\* differs from the generation of the handle it replaces under that name
FreshId(n) == IF n \in DOMAIN indexers THEN 3 - indexers[n].id ELSE 1

\* lines 138-139: the per-call save_index, else the instance default
EffectiveSaveIgnoresDefault(sv) == sv # "false"
EffectiveSave(sv) == IF sv = "none" THEN save_index ELSE sv = "true"

\* lines 143-144: an existing artifact defers the load
DeferredNever(p) == FALSE
Deferred(p) == Exists(p)

\* _build_indexer, lines 106-117, given whether build_index() and save_index()
\* return (bok, sok): the outcome, the Pod5Index methods invoked, whether the
\* artifact was written, whether the save failure was logged as a warning
BuildIndexerSaveAborts(save, bok, sok) ==
  IF ~bok THEN [outcome |-> "BuildError", ext |-> <<"build">>,
                wrote |-> FALSE, save_failed |-> FALSE]
  ELSE IF ~save THEN [outcome |-> "ok", ext |-> <<"build">>,
                      wrote |-> FALSE, save_failed |-> FALSE]
  ELSE IF sok THEN [outcome |-> "ok", ext |-> <<"build", "save">>,
                    wrote |-> TRUE, save_failed |-> FALSE]
  ELSE [outcome |-> "OSError", ext |-> <<"build", "save">>,
        wrote |-> FALSE, save_failed |-> TRUE]
BuildIndexer(save, bok, sok) ==
  IF ~bok THEN [outcome |-> "BuildError", ext |-> <<"build">>,
                wrote |-> FALSE, save_failed |-> FALSE]
  ELSE IF ~save THEN [outcome |-> "ok", ext |-> <<"build">>,
                      wrote |-> FALSE, save_failed |-> FALSE]
  ELSE IF sok THEN [outcome |-> "ok", ext |-> <<"build", "save">>,
                    wrote |-> TRUE, save_failed |-> FALSE]
  ELSE [outcome |-> "ok", ext |-> <<"build", "save">>,
        wrote |-> FALSE, save_failed |-> TRUE]

\* Pod5RandomAccessReader(save_index=s)
NewReader(s) ==
  /\ save_index' = s
  /\ pod5_paths' = <<>>
  /\ path_keys' = <<>>
  /\ indexers' = <<>>
  /\ loadsSince' = [n \in Names |-> 0]
  /\ pinned' = [n \in Names |-> 0]
  /\ ev' = [NoEv EXCEPT !.op = "init"]
  /\ call' = NoCall
  /\ UNCHANGED <<env, threads, artifact, ext, bvars>>

\* add_pod5(p, save_index=sv), lines 137-151
AddPod5(p, sv, bok, sok) ==
  LET name == BaseName(p)
      b == BuildIndexer(EffectiveSave(sv), bok, sok)
      e == [NoEv EXCEPT !.op = "add_pod5", !.name = name, !.path = p]
  IN  /\ p \in files
      \* the answers of calls that are not made are not chosen
      /\ Deferred(p) => bok /\ sok
      /\ (~bok \/ ~EffectiveSave(sv)) => sok
      /\ pod5_paths' = DictSet(pod5_paths, name, p)
      /\ path_keys' = KeyAppend(path_keys, name)
      /\ IF Deferred(p)
         THEN /\ ev' = e
              /\ pinned' = [pinned EXCEPT ![name] = 0]
              /\ UNCHANGED <<indexers, artifact>>
         ELSE IF b.outcome # "ok"
         THEN /\ ev' = [e EXCEPT !.outcome = b.outcome, !.ext = b.ext,
                                 !.save_arg = sv, !.save_failed = b.save_failed]
              /\ pinned' = [pinned EXCEPT ![name] = 0]
              /\ UNCHANGED <<indexers, artifact>>
         ELSE /\ indexers' = DictSet(indexers, name,
                                     [id |-> FreshId(name), path |-> p, via |-> "build"])
              /\ artifact' = IF b.wrote THEN [artifact EXCEPT ![p] = @ + 1] ELSE artifact
              /\ ev' = [e EXCEPT !.ext = b.ext, !.ret = FreshId(name),
                                 !.save_arg = sv, !.save_failed = b.save_failed]
              /\ pinned' = [pinned EXCEPT ![name] = IF b.save_failed THEN FreshId(name) ELSE 0]
      /\ call' = NoCall
      /\ UNCHANGED <<save_index, loadsSince, env, threads, ext, bvars>>

\* line 198: the handle is resident
ResidentNever(n) == FALSE
Resident(n) == n \in DOMAIN indexers

\* lines 199-203 and 85-87: what a lookup that finds no resident handle does:
\* KeyError for an unregistered name, FileNotFoundError when the artifact of
\* the bound path is absent, otherwise load_index()
MissOutcomeNoKeyCheck(n) ==
  IF n \notin DOMAIN pod5_paths \/ ~Exists(pod5_paths[n])
  THEN "FileNotFoundError" ELSE "load"
MissOutcomeLoadsAbsent(n) ==
  IF n \notin DOMAIN pod5_paths THEN "KeyError" ELSE "load"
MissOutcome(n) ==
  IF n \notin DOMAIN pod5_paths THEN "KeyError"
  ELSE IF ~Exists(pod5_paths[n]) THEN "FileNotFoundError" ELSE "load"

\* _get_indexer(n), lines 198-207, with _load_indexer, lines 85-91;
\* lok: load_index() did not raise
GetIndexer(n, lok) ==
  LET e == [NoEv EXCEPT !.op = "get_indexer", !.name = n]
      m == MissOutcome(n)
      p == IF n \in DOMAIN pod5_paths THEN pod5_paths[n] ELSE 0
  IN
  \* the answer of a load_index() call that is not made is not chosen
  /\ (Resident(n) \/ m # "load") => lok
  /\ IF Resident(n)
     THEN /\ ev' = [e EXCEPT !.ret = indexers[n].id]
          /\ UNCHANGED <<indexers, loadsSince>>
     ELSE IF m = "KeyError"
     THEN /\ ev' = [e EXCEPT !.outcome = "KeyError"]
          /\ UNCHANGED <<indexers, loadsSince>>
     ELSE IF m = "FileNotFoundError"
     THEN /\ ev' = [e EXCEPT !.outcome = "FileNotFoundError", !.path = p]
          /\ UNCHANGED <<indexers, loadsSince>>
     ELSE IF ~lok
     THEN /\ ev' = [e EXCEPT !.outcome = "LoadError", !.path = p,
                             !.ext = <<"load">>]
          /\ UNCHANGED <<indexers, loadsSince>>
     ELSE /\ indexers' = DictSet(indexers, n,
                                 [id |-> FreshId(n), path |-> p, via |-> "load"])
          /\ loadsSince' = [loadsSince EXCEPT ![n] = IF @ < 2 THEN @ + 1 ELSE @]
          /\ ev' = [e EXCEPT !.path = p, !.ext = <<"load">>, !.ret = FreshId(n)]
  /\ call' = NoCall
  /\ UNCHANGED <<save_index, pod5_paths, path_keys, pinned, env, threads, artifact, ext, bvars>>

\* pickle.loads(pickle.dumps(reader)): __getstate__, lines 182-186
PickleKeepsHandles ==
  /\ loadsSince' = [n \in Names |-> 0]
  /\ pinned' = [n \in Names |-> 0]
  /\ ev' = [NoEv EXCEPT !.op = "pickle", !.dropped = Cardinality(DOMAIN indexers)]
  /\ call' = NoCall
  /\ UNCHANGED <<indexers, save_index, pod5_paths, path_keys, env, threads, artifact, ext, bvars>>
\* a round trip that leaves out the path map and keeps the handles
PickleDropsPaths ==
  /\ pod5_paths' = <<>>
  /\ path_keys' = <<>>
  /\ loadsSince' = [n \in Names |-> 0]
  /\ pinned' = [n \in Names |-> 0]
  /\ ev' = [NoEv EXCEPT !.op = "pickle", !.dropped = 0]
  /\ call' = NoCall
  /\ UNCHANGED <<indexers, save_index, env, threads, artifact, ext, bvars>>
PickleRoundTrip ==
  /\ indexers' = <<>>
  /\ loadsSince' = [n \in Names |-> 0]
  /\ pinned' = [n \in Names |-> 0]
  \* dropped: the handles __getstate__ left out
  /\ ev' = [NoEv EXCEPT !.op = "pickle", !.dropped = Cardinality(DOMAIN indexers)]
  /\ call' = NoCall
  /\ UNCHANGED <<save_index, pod5_paths, path_keys, env, threads, artifact, ext, bvars>>

\* ---- reader.py: _get_indexer called from several threads ----------------------
\* the threads of one process that share a reader
Threads == 1..NumThreads
\* no Pod5Index object
NoHandle == [id |-> 0, path |-> 0, via |-> "none"]
\* a thread outside _get_indexer
Idle == [pc |-> "idle", name |-> 0, path |-> 0, h |-> NoHandle, ret |-> NoHandle,
         outcome |-> "ok"]
\* threads[t].pc: "idle" | "check" (before line 198) | "lookup" (before line 199)
\* | "load" (in _load_indexer) | "store" (before the assignment of line 204)
\* | "ret" (before line 207) | "done"
Step(t, r) == threads' = [threads EXCEPT ![t] = r]

\* the assignment kept for the first thread only, as dict.setdefault would
StoreHandleIfAbsent(ix, n, h) == IF n \in DOMAIN ix THEN ix ELSE DictSet(ix, n, h)
\* line 204, self._indexers[name] = <the loaded handle>
StoreHandle(ix, n, h) == DictSet(ix, n, h)

\* thread t enters _get_indexer(n)
GiCall(t, n) ==
  /\ threads[t].pc \in {"idle", "done"}
  /\ Step(t, [Idle EXCEPT !.pc = "check", !.name = n])
  /\ ev' = NoEv /\ call' = NoCall
  /\ UNCHANGED <<rvars, env, artifact, ext, bvars>>

\* line 198, "if pod5_file_name not in self._indexers"
GiCheck(t) ==
  /\ threads[t].pc = "check"
  /\ Step(t, [threads[t] EXCEPT !.pc = IF Resident(threads[t].name) THEN "ret" ELSE "lookup"])
  /\ ev' = NoEv /\ call' = NoCall
  /\ UNCHANGED <<rvars, env, artifact, ext, bvars>>

\* lines 199-203 and the argument of line 205: KeyError for an unbound name,
\* otherwise the bound path is read (no operation removes a binding, so the
\* two reads of _pod5_paths are taken as one step)
GiLookup(t) ==
  /\ threads[t].pc = "lookup"
  /\ Step(t, IF threads[t].name \notin DOMAIN pod5_paths
             THEN [threads[t] EXCEPT !.pc = "done", !.outcome = "KeyError"]
             ELSE [threads[t] EXCEPT !.pc = "load", !.path = pod5_paths[threads[t].name]])
  /\ ev' = NoEv /\ call' = NoCall
  /\ UNCHANGED <<rvars, env, artifact, ext, bvars>>

\* _load_indexer, lines 85-91: FileNotFoundError without the artifact,
\* otherwise a new Pod5Index of the thread's own, loaded (lok) or raising
GiLoad(t, lok) ==
  /\ threads[t].pc = "load"
  \* the answer of a load_index() call that is not made is not chosen
  /\ ~Exists(threads[t].path) => lok
  /\ Step(t, IF ~Exists(threads[t].path)
             THEN [threads[t] EXCEPT !.pc = "done", !.outcome = "FileNotFoundError"]
             ELSE IF ~lok
             THEN [threads[t] EXCEPT !.pc = "done", !.outcome = "LoadError"]
             ELSE [threads[t] EXCEPT !.pc = "store",
                                     !.h = [id |-> 2 + t, path |-> threads[t].path,
                                            via |-> "load"]])
  /\ loadsSince' = IF Exists(threads[t].path) /\ lok
                   THEN [loadsSince EXCEPT ![threads[t].name] = IF @ < 2 THEN @ + 1 ELSE @]
                   ELSE loadsSince
  /\ ev' = NoEv /\ call' = NoCall
  /\ UNCHANGED <<save_index, pod5_paths, path_keys, indexers, pinned, env, artifact, ext, bvars>>

\* line 204: the loaded handle is stored under the name
GiStore(t) ==
  /\ threads[t].pc = "store"
  /\ indexers' = StoreHandle(indexers, threads[t].name, threads[t].h)
  /\ Step(t, [threads[t] EXCEPT !.pc = "ret"])
  /\ ev' = NoEv /\ call' = NoCall
  /\ UNCHANGED <<save_index, pod5_paths, path_keys, loadsSince, pinned, env, artifact, ext, bvars>>

\* line 207, "return self._indexers[pod5_file_name]": the map is read again
GiReturn(t) ==
  /\ threads[t].pc = "ret"
  /\ Step(t, [threads[t] EXCEPT !.pc = "done", !.ret = indexers[threads[t].name]])
  /\ ev' = NoEv /\ call' = NoCall
  /\ UNCHANGED <<rvars, env, artifact, ext, bvars>>

\* ---- reader.py: add_pod5_dir --------------------------------------------------
\* Pod5Index(str(pod5_path)) stored under name n of the handle map ix: a new
\* object, of the other generation than the handle it replaces
FreshIdIn(ix, n) == IF n \in DOMAIN ix THEN 3 - ix[n].id ELSE 1

\* self.add_pod5(f), lines 137-151 with save_index=None, as a function of the
\* pass so far: r holds the registry and the file system the pass has
\* produced, its outcome, the Pod5Index methods invoked (ext) and the files
\* add_pod5 was called for (out); bok, sok: build_index(), save_index() return
AddOneAtomic(r, p, bok, sok) ==
  LET name == BaseName(p)
      b == BuildIndexer(save_index, bok, sok)
      id == FreshIdIn(r.indexers, name)
      bound == [r EXCEPT !.pod5_paths = DictSet(@, name, p),
                         !.path_keys = KeyAppend(@, name),
                         !.out = Append(@, p)]
  IN  IF r.artifact[p] # 0
      THEN [bound EXCEPT !.pinned = [@ EXCEPT ![name] = 0]]
      ELSE IF b.outcome # "ok"
      \* the binding is written only when the build has returned
      THEN [r EXCEPT !.out = Append(@, p),
                     !.outcome = b.outcome, !.path = p, !.ext = @ \o b.ext]
      ELSE [bound EXCEPT !.indexers = DictSet(@, name, [id |-> id, path |-> p, via |-> "build"]),
                         !.artifact = IF b.wrote THEN [@ EXCEPT ![p] = @ + 1] ELSE @,
                         !.pinned = [@ EXCEPT ![name] = IF b.save_failed THEN id ELSE 0],
                         !.save_failed = @ \/ b.save_failed,
                         !.ext = @ \o b.ext]
AddOne(r, p, bok, sok) ==
  LET name == BaseName(p)
      b == BuildIndexer(save_index, bok, sok)
      id == FreshIdIn(r.indexers, name)
      bound == [r EXCEPT !.pod5_paths = DictSet(@, name, p),
                         !.path_keys = KeyAppend(@, name),
                         !.out = Append(@, p)]
  IN  IF r.artifact[p] # 0
      THEN [bound EXCEPT !.pinned = [@ EXCEPT ![name] = 0]]
      ELSE IF b.outcome # "ok"
      THEN [bound EXCEPT !.pinned = [@ EXCEPT ![name] = 0],
                         !.outcome = b.outcome, !.path = p, !.ext = @ \o b.ext]
      ELSE [bound EXCEPT !.indexers = DictSet(@, name, [id |-> id, path |-> p, via |-> "build"]),
                         !.artifact = IF b.wrote THEN [@ EXCEPT ![p] = @ + 1] ELSE @,
                         !.pinned = [@ EXCEPT ![name] = IF b.save_failed THEN id ELSE 0],
                         !.save_failed = @ \/ b.save_failed,
                         !.ext = @ \o b.ext]

\* lines 173-174: the loop over the sorted files; an exception of add_pod5
\* leaves the loop and the call.  badb, bads: the files whose build_index(),
\* save_index() would raise
RECURSIVE AddAll(_, _, _, _)
AddAllSwallowsErrors(left, badb, bads, r) ==
  IF left = <<>> THEN [r EXCEPT !.outcome = "ok", !.path = 0]
  ELSE AddAll(Tail(left), badb, bads,
              AddOne([r EXCEPT !.outcome = "ok"], Head(left),
                     Head(left) \notin badb, Head(left) \notin bads))
AddAll(left, badb, bads, r) ==
  IF left = <<>> \/ r.outcome # "ok" THEN r
  ELSE AddAll(Tail(left), badb, bads,
              AddOne(r, Head(left), Head(left) \notin badb, Head(left) \notin bads))

\* line 168: the files the pass registers
DirFilesUnsorted(S) == IF S = {} THEN <<>> ELSE <<Max(S)>> \o SortedSeq(S \ {Max(S)})
DirFiles(S) == SortedSeq(S)

\* line 165: the argument is checked before anything else
DirCheckAfterScan(isdir) == isdir \/ files # {}
DirCheck(isdir) == isdir

\* add_pod5_dir(pod5_dir), lines 164-176.  isdir: pod5_dir.is_dir()
AddPod5Dir(isdir, badb, bads) ==
  LET e == [NoEv EXCEPT !.op = "add_pod5_dir"]
      missing == {p \in files : ~Exists(p)}
  IN
  \* the answers of calls that are not made are not chosen
  /\ badb \subseteq (IF isdir THEN missing ELSE {})
  /\ bads \subseteq (IF isdir /\ save_index THEN missing \ badb ELSE {})
  /\ call' = NoCall
  /\ IF ~DirCheck(isdir)
     THEN /\ ev' = [e EXCEPT !.outcome = "NotADirectoryError"]
          /\ UNCHANGED <<pod5_paths, path_keys, indexers, artifact, pinned>>
     ELSE IF DirFiles(files) = <<>>
     THEN /\ ev' = e
          /\ UNCHANGED <<pod5_paths, path_keys, indexers, artifact, pinned>>
     ELSE \E r \in {AddAll(DirFiles(files), badb, bads,
                           [pod5_paths |-> pod5_paths, path_keys |-> path_keys,
                            indexers |-> indexers, artifact |-> artifact,
                            pinned |-> pinned, outcome |-> "ok", path |-> 0,
                            ext |-> <<>>, out |-> <<>>, save_failed |-> FALSE])} :
          /\ pod5_paths' = r.pod5_paths
          /\ path_keys' = r.path_keys
          /\ indexers' = r.indexers
          /\ artifact' = r.artifact
          /\ pinned' = r.pinned
          /\ ev' = [e EXCEPT !.outcome = r.outcome, !.path = r.path, !.ext = r.ext,
                             !.out = r.out, !.save_failed = r.save_failed]
  /\ UNCHANGED <<save_index, loadsSince, env, threads, ext, bvars>>

\* add_pod5_dir called by the thread that calls build_pod5_index: not while
\* its call is running
DirCall(isdir, badb, bads) ==
  /\ bpc # "running"
  /\ AddPod5Dir(isdir, badb, bads)

\* ---- Pod5Index, the native index of one container file ----------------------
\* the reads of the file at path p, in the order of its read table; the files
\* differ in their number of reads and in their layout
NumReads(p) == IF p = NumPaths THEN NumIds - 1 ELSE NumIds
\* Pod5Index.list_read_ids()
ReadIds(p) == [k \in 1..NumReads(p) |-> k]
\* signal_row_start of read u in the file at path p
RowStart(p, u) == (u + p) % NumIds
\* Pod5Index.get_signal_row_starts(uuids): NotFound for an unknown read
GetSignalRowStarts(p, uuids) ==
  IF \E k \in DOMAIN uuids : uuids[k] \notin Range(ReadIds(p))
  THEN [outcome |-> "NotFound", starts |-> <<>>]
  ELSE [outcome |-> "ok", starts |-> [k \in DOMAIN uuids |-> RowStart(p, uuids[k])]]
RECURSIVE SortByLocation(_, _)
SortByLocation(p, S) ==
  IF S = {} THEN <<>>
  ELSE LET u == CHOOSE x \in S : \A y \in S : RowStart(p, x) <= RowStart(p, y)
       IN  <<u>> \o SortByLocation(p, S \ {u})
\* Pod5Index.sort_uuids_by_location(uuids), for the reads of the file
SortUuidsByLocation(p, uuids) == SortByLocation(p, Range(uuids))

\* ---- reader.py: plan_fetch_order ---------------------------------------------

\* _get_indexer(n) as a function of the handle map ix; lok: load_index() returns
Resolve(ix, n, lok) ==
  IF n \in DOMAIN ix
  THEN [outcome |-> "ok", ext |-> <<>>, indexers |-> ix, path |-> ix[n].path]
  ELSE IF MissOutcome(n) # "load"
  THEN [outcome |-> MissOutcome(n), ext |-> <<>>, indexers |-> ix, path |-> 0]
  ELSE IF ~lok
  THEN [outcome |-> "LoadError", ext |-> <<"load">>, indexers |-> ix, path |-> 0]
  ELSE [outcome |-> "ok", ext |-> <<"load">>, path |-> pod5_paths[n],
        indexers |-> DictSet(ix, n, [id |-> FreshId(n), path |-> pod5_paths[n],
                                     via |-> "load"])]

\* lines 369-378: the file names and the uuids of the items
PlanArgsKeyOptional(items, a) ==
  [outcome |-> "ok", fns |-> [i \in DOMAIN items |-> items[i].file],
   uuids |-> [i \in DOMAIN items |-> items[i].id]]
PlanArgsSwapsLists(items, a) ==
  IF a.key
  THEN [outcome |-> "ok", fns |-> [i \in DOMAIN items |-> items[i].file],
        uuids |-> [i \in DOMAIN items |-> items[i].id]]
  ELSE IF a.filenames.given /\ a.uuids.given
  THEN [outcome |-> "ok", fns |-> a.uuids.val, uuids |-> a.filenames.val]
  ELSE [outcome |-> "ValueError", fns |-> <<>>, uuids |-> <<>>]
PlanArgs(items, a) ==
  IF a.key
  THEN [outcome |-> "ok", fns |-> [i \in DOMAIN items |-> items[i].file],
        uuids |-> [i \in DOMAIN items |-> items[i].id]]
  ELSE IF a.filenames.given /\ a.uuids.given
  THEN [outcome |-> "ok", fns |-> a.filenames.val, uuids |-> a.uuids.val]
  ELSE [outcome |-> "ValueError", fns |-> <<>>, uuids |-> <<>>]

\* line 381, np.unique(filenames_arr): the distinct names in sorted order
RECURSIVE FirstSeen(_)
FirstSeen(fns) ==
  IF fns = <<>> THEN <<>>
  ELSE <<Head(fns)>> \o FirstSeen(SelectSeq(Tail(fns), LAMBDA x : x # Head(fns)))
NpUniqueFirstSeen(fns) == FirstSeen(fns)
NpUnique(fns) == SortedSeq(Range(fns))

\* lines 384-386: the positions of the items of file fn, ascending
GroupIndices(fns, fn) ==
  SelectSeq([i \in 1..Len(fns) |-> i], LAMBDA i : fns[i] = fn)

\* line 396, np.argsort(starts) with the default kind: the positions of starts
\* in ascending order of value; equal values come in the order of this build
RECURSIVE ArgSortOf(_, _, _)
ArgSortOf(starts, S, ties) ==
  IF S = {} THEN <<>>
  ELSE LET m == Min({starts[i] : i \in S})
           cand == {i \in S : starts[i] = m}
           pick == IF ties = "input" THEN Min(cand) ELSE Max(cand)
       IN  <<pick>> \o ArgSortOf(starts, S \ {pick}, ties)
ArgSort(starts, ties) == ArgSortOf(starts, DOMAIN starts, ties)

\* lines 389-397: the loop over the file groups, from the handle map ix on.
\* bad: the names whose load_index() would raise.  The result: the handle map
\* left behind, final_order, the outcome, the Pod5Index methods invoked and the
\* names loaded
RECURSIVE PlanGroups(_, _, _, _, _)
PlanGroups(left, fns, uuids, bad, acc) ==
  IF left = <<>> \/ acc.outcome # "ok" THEN acc
  ELSE LET fn == Head(left)
           idx == GroupIndices(fns, fn)
       IN  IF Len(idx) = 1
           THEN PlanGroups(Tail(left), fns, uuids, bad, [acc EXCEPT !.order = @ \o idx])
           ELSE LET r == Resolve(acc.indexers, fn, fn \notin bad)
                    group_uuids == [k \in 1..Len(idx) |-> uuids[idx[k]]]
                    st == GetSignalRowStarts(r.path, group_uuids)
                    order == ArgSort(st.starts, argsort_ties)
                    a1 == [acc EXCEPT !.indexers = r.indexers, !.ext = @ \o r.ext,
                                      !.loaded = IF r.ext = <<>> \/ r.outcome # "ok"
                                                 THEN @ ELSE @ \cup {fn}]
                IN  IF r.outcome # "ok"
                    THEN [a1 EXCEPT !.outcome = r.outcome]
                    ELSE IF st.outcome # "ok"
                    THEN [a1 EXCEPT !.outcome = st.outcome,
                                    !.ext = @ \o <<"get_signal_row_starts">>]
                    ELSE PlanGroups(Tail(left), fns, uuids, bad,
                           [a1 EXCEPT !.ext = @ \o <<"get_signal_row_starts">>,
                                      !.order = @ \o [k \in 1..Len(idx) |-> idx[order[k]]]])

\* lines 401-402, np.array(items, dtype=object)[final_order].tolist(): when
\* every item is a sequence of one common length the array is two-dimensional
\* and tolist() returns each row as a list; otherwise the items themselves
ToList(items, order) ==
  IF \A i \in DOMAIN items : items[i].shape = "tuple"
  THEN [k \in DOMAIN order |-> [items[order[k]] EXCEPT !.shape = "list"]]
  ELSE [k \in DOMAIN order |-> items[order[k]]]

\* the names whose handle plan_fetch_order would have to load
PlanLoads(fns) ==
  {n \in Range(fns) : /\ Len(GroupIndices(fns, n)) >= 2
                      /\ n \notin DOMAIN indexers
                      /\ MissOutcome(n) = "load"}

\* the list argument that holds field f of every item, or None
ListOf(items, given, f) ==
  IF given THEN [given |-> TRUE, val |-> [i \in DOMAIN items |-> items[i][f]]]
  ELSE NoneList

\* the empty check skipped: an empty list goes on to argument validation
EmptyInputNever(items) == FALSE

\* lines 364-366, "if not items: return []": the first statement of
\* plan_fetch_order, before the arguments are looked at
EmptyInput(items) == items = <<>>

\* plan_fetch_order(work, key, filenames=, uuids=), lines 364-402, called
\* with a key function or not (k) and with each list None or holding the
\* items' file names (fl) and read ids (ul)
PlanFetchOrder(k, fl, ul, bad) ==
  LET items == work
      a == [key |-> k, filenames |-> ListOf(items, fl, "file"),
            uuids |-> ListOf(items, ul, "id")]
      e == [NoEv EXCEPT !.op = "plan_fetch_order", !.args = a]
  IN
  \E pa \in {PlanArgs(items, a)} :
      /\ call' = NoCall
      \* the answers of load_index() calls that are not made are not chosen
      /\ bad \subseteq (IF EmptyInput(items) \/ pa.outcome # "ok" THEN {} ELSE PlanLoads(pa.fns))
      /\ IF EmptyInput(items)
         THEN ev' = e /\ UNCHANGED <<indexers, loadsSince>>
         ELSE IF pa.outcome # "ok"
         THEN ev' = [e EXCEPT !.outcome = pa.outcome] /\ UNCHANGED <<indexers, loadsSince>>
         ELSE \E g \in {PlanGroups(NpUnique(pa.fns), pa.fns, pa.uuids, bad,
                                    [indexers |-> indexers, order |-> <<>>,
                                     outcome |-> "ok", ext |-> <<>>, loaded |-> {}])} :
              /\ indexers' = g.indexers
              /\ loadsSince' = [n \in Names |->
                                  IF n \in g.loaded /\ loadsSince[n] < 2
                                  THEN loadsSince[n] + 1 ELSE loadsSince[n]]
              /\ ev' = IF g.outcome = "ok"
                       THEN [e EXCEPT !.ext = g.ext, !.order = g.order,
                                      !.out = ToList(items, g.order)]
                       ELSE [e EXCEPT !.ext = g.ext, !.outcome = g.outcome]
      /\ UNCHANGED <<save_index, pod5_paths, path_keys, pinned, env, threads, artifact, ext, bvars>>

\* ---- reader.py: list_read_ids, iter_read_ids ---------------------------------
\* lines 213-216, the property filenames: the keys of _pod5_paths, in the
\* order of their first insertion
Filenames == path_keys

\* lines 231-235 from the handle map ix on: the ids returned, the handle map
\* left behind and the Pod5Index methods invoked
ListIds(ix, n, sort, lok) ==
  LET r == Resolve(ix, n, lok)
  IN  IF r.outcome # "ok"
      THEN [outcome |-> r.outcome, ext |-> r.ext, indexers |-> ix, ids |-> <<>>]
      ELSE IF sort
      THEN [outcome |-> "ok", indexers |-> r.indexers,
            ext |-> r.ext \o <<"list_read_ids", "sort_uuids_by_location">>,
            ids |-> SortUuidsByLocation(r.path, ReadIds(r.path))]
      ELSE [outcome |-> "ok", indexers |-> r.indexers,
            ext |-> r.ext \o <<"list_read_ids">>,
            ids |-> ReadIds(r.path)]

\* list_read_ids(n, sort=sort), lines 231-235; lok: load_index() returns
ListReadIds(n, sort, lok) ==
  LET e == [NoEv EXCEPT !.op = "list_read_ids", !.name = n, !.args = [sort |-> sort]]
  IN
  \* the answer of a load_index() call that is not made is not chosen
  /\ (Resident(n) \/ MissOutcome(n) # "load") => lok
  /\ \E l \in {ListIds(indexers, n, sort, lok)} :
       /\ indexers' = l.indexers
       /\ loadsSince' = [loadsSince EXCEPT ![n] =
                           IF l.outcome = "ok" /\ ~Resident(n) /\ @ < 2 THEN @ + 1 ELSE @]
       /\ ev' = [e EXCEPT !.outcome = l.outcome, !.ext = l.ext, !.out = l.ids]
  /\ call' = NoCall
  /\ UNCHANGED <<save_index, pod5_paths, path_keys, pinned, env, threads, artifact, ext, bvars>>

\* lines 244-246, the two loops of the generator from the handle map of acc
\* on; bad: the names whose load_index() would raise.  An exception ends the
\* generator after the pairs already yielded
RECURSIVE IterFiles(_, _, _)
IterFiles(left, bad, acc) ==
  IF left = <<>> \/ acc.outcome # "ok" THEN acc
  ELSE LET n == Head(left)
           l == ListIds(acc.indexers, n, TRUE, n \notin bad)
       IN  IterFiles(Tail(left), bad,
                     [indexers |-> l.indexers, outcome |-> l.outcome,
                      ext |-> acc.ext \o l.ext,
                      out |-> acc.out \o [k \in DOMAIN l.ids |-> <<n, l.ids[k]>>],
                      loaded |-> acc.loaded \cup
                                 (IF l.outcome = "ok" /\ n \notin DOMAIN acc.indexers
                                  THEN {n} ELSE {})])

\* the names whose handle a full iteration would have to load
IterLoads == {n \in Range(Filenames) : ~Resident(n) /\ MissOutcome(n) = "load"}

\* list(reader.iter_read_ids()), lines 244-246: the generator run to its end
\* by one consumer
IterReadIds(bad) ==
  LET e == [NoEv EXCEPT !.op = "iter_read_ids"]
  IN
  \* the answers of load_index() calls that are not made are not chosen
  /\ bad \subseteq IterLoads
  /\ \E g \in {IterFiles(Filenames, bad, [indexers |-> indexers, outcome |-> "ok",
                                          ext |-> <<>>, out |-> <<>>, loaded |-> {}])} :
       /\ indexers' = g.indexers
       /\ loadsSince' = [n \in Names |->
                           IF n \in g.loaded /\ loadsSince[n] < 2
                           THEN loadsSince[n] + 1 ELSE loadsSince[n]]
       /\ ev' = [e EXCEPT !.outcome = g.outcome, !.ext = g.ext, !.out = g.out]
  /\ call' = NoCall
  /\ UNCHANGED <<save_index, pod5_paths, path_keys, pinned, env, threads, artifact, ext, bvars>>

\* ---- reader.py: the lookups of one read -----------------------------------------
\* get_calibration, fetch_signal, fetch_pA_signal, get_signal_length (lines
\* 252-311): self._get_indexer(n).<method>(u); lok: load_index() returns.  The
\* Pod5Index method fails with NotFound for a read the file does not hold
FetchRead(n, u, lok) ==
  LET e == [NoEv EXCEPT !.op = "fetch", !.name = n]
  IN
  \* the answer of a load_index() call that is not made is not chosen
  /\ (Resident(n) \/ MissOutcome(n) # "load") => lok
  /\ \E r \in {Resolve(indexers, n, lok)} :
       /\ indexers' = r.indexers
       /\ loadsSince' = [loadsSince EXCEPT ![n] =
                           IF r.outcome = "ok" /\ ~Resident(n) /\ @ < 2 THEN @ + 1 ELSE @]
       /\ ev' = IF r.outcome # "ok"
                THEN [e EXCEPT !.outcome = r.outcome, !.ext = r.ext]
                ELSE [e EXCEPT !.ext = r.ext \o <<"fetch">>, !.path = r.path,
                               !.ret = r.indexers[n].id,
                               !.outcome = IF u \in Range(ReadIds(r.path))
                                           THEN "ok" ELSE "NotFound"]
  /\ call' = NoCall
  /\ UNCHANGED <<save_index, pod5_paths, path_keys, pinned, env, threads, artifact, ext, bvars>>

\* ---- specification --------------------------------------------------------
MwChoices == {NoneInt} \cup (0..MaxWorkers)
CpuChoices == {NoneInt} \cup (1..MaxCpu)
RotChoices == {"true", "false", "none"}

\* the state before any call, but for the directory and the build of numpy
InitCalls ==
  /\ ext = 0
  /\ bpc = "idle"
  /\ calls = 0
  /\ force = FALSE
  /\ max_workers = 0
  /\ call = NoCall
  /\ targets = <<>>
  /\ tstat = <<>>
  /\ collected = {}
  /\ logged = {}
  /\ result = <<>>
  /\ error = ""
  /\ artAtScan = [p \in Paths |-> 0]
  /\ prevClean = FALSE
  /\ save_index = TRUE
  /\ pod5_paths = <<>>
  /\ path_keys = <<>>
  /\ indexers = <<>>
  /\ ev = NoEv
  /\ loadsSince = [n \in Names |-> 0]
  /\ pinned = [n \in Names |-> 0]
  /\ threads = [t \in Threads |-> Idle]

Init ==
  /\ files \in {1..k : k \in 0..NumPaths}
  /\ argsort_ties = "input"
  /\ work = <<>>
  /\ artifact = [p \in Paths |-> 0]
  /\ InitCalls

\* the items plan_fetch_order is given, a Sequence[T]: each names a file and a
\* read, and all are opaque objects or all are tuples
PlanItems(shape) == [file : Names, id : 1..NumIds, shape : {shape}]
ItemSeqs == UNION {[1..k -> PlanItems(shape)] : k \in 0..MaxItems, shape \in {"object", "tuple"}}
\* a directory holding every file, with no artifact or with the artifacts an
\* earlier build_pod5_index left; a numpy build of either kind; a work list
InitPlan ==
  /\ files = Paths
  /\ work \in ItemSeqs
  \* the order of equal keys is not chosen where no two items have one key
  /\ argsort_ties \in (IF \E i, j \in DOMAIN work : i < j /\ work[i] = work[j]
                        THEN {"input", "reversed"} ELSE {"input"})
  /\ artifact \in {[p \in Paths |-> 0], [p \in Paths |-> 1]}
  /\ InitCalls

\* a directory of files whose base names differ, with no artifact
InitDir ==
  /\ files \in {1..k : k \in 0..NumNames}
  /\ argsort_ties = "input"
  /\ work = <<>>
  /\ artifact = [p \in Paths |-> 0]
  /\ InitCalls

\* a directory holding every file, with no artifact, and a caller whose work
\* list is empty or names reads of two files
WorkOverBothNames ==
  <<[file |-> 1, id |-> 1, shape |-> "object"],
    [file |-> NumNames, id |-> 1, shape |-> "object"],
    [file |-> 1, id |-> NumIds, shape |-> "object"]>>
InitOps ==
  /\ files = Paths
  /\ work \in {<<>>, WorkOverBothNames}
  /\ argsort_ties = "input"
  /\ artifact = [p \in Paths |-> 0]
  /\ InitCalls

NextBuild ==
  \/ \E isdir \in BOOLEAN, mw \in MwChoices, f \in BOOLEAN,
        rot \in RotChoices, cpu \in CpuChoices : BuildCall(isdir, mw, f, rot, cpu)
  \/ \E i \in 1..NumPaths : TaskStart(i)
  \/ \E i \in 1..NumPaths, ok \in BOOLEAN : TaskBuild(i, ok)
  \/ \E i \in 1..NumPaths : TaskHang(i)
  \/ \E i \in 1..NumPaths, ok \in BOOLEAN : TaskSave(i, ok)
  \/ \E i \in 1..NumPaths : Collect(i)
  \/ BuildReturn
  \/ \E p \in Paths : ExternalCreate(p)

SaveArgs == {"none", "true", "false"}

NextReg ==
  \/ \E s \in BOOLEAN : NewReader(s)
  \/ \E p \in Paths, sv \in SaveArgs, bok \in BOOLEAN, sok \in BOOLEAN :
        AddPod5(p, sv, bok, sok)
  \/ \E n \in Names, lok \in BOOLEAN : GetIndexer(n, lok)
  \/ PickleRoundTrip
  \/ \E p \in Paths : ExternalCreate(p)
  \/ \E p \in Paths : ExternalDelete(p)

NextPlan ==
  \/ \E p \in Paths, bok \in BOOLEAN : AddPod5(p, "none", bok, TRUE)
  \/ \E k \in BOOLEAN, fl \in BOOLEAN, ul \in BOOLEAN, bad \in SUBSET Names :
        PlanFetchOrder(k, fl, ul, bad)

NextIter ==
  \/ \E p \in Paths, bok \in BOOLEAN, sok \in BOOLEAN : AddPod5(p, "none", bok, sok)
  \/ \E p \in Paths : ExternalCreate(p)
  \/ PickleRoundTrip
  \/ \E n \in Names, sort \in BOOLEAN, lok \in BOOLEAN : ListReadIds(n, sort, lok)
  \/ \E bad \in SUBSET Names : IterReadIds(bad)

\* one thread that calls build_pod5_index and add_pod5_dir in turn
NextDir ==
  \/ NextBuild
  \/ \E isdir \in BOOLEAN, badb \in SUBSET Paths, bads \in SUBSET Paths :
        DirCall(isdir, badb, bads)

\* a reader that registers files and directories and resolves names
NextBulk ==
  \/ \E isdir \in BOOLEAN, badb \in SUBSET Paths, bads \in SUBSET Paths :
        AddPod5Dir(isdir, badb, bads)
  \/ \E p \in Paths, bok \in BOOLEAN, sok \in BOOLEAN : AddPod5(p, "none", bok, sok)
  \/ \E n \in Names, lok \in BOOLEAN : GetIndexer(n, lok)
  \/ \E p \in Paths : ExternalCreate(p)

\* a directory whose files all have the artifact an earlier build left, so
\* that every registration is deferred
InitRace ==
  /\ files = Paths
  /\ argsort_ties = "input"
  /\ work = <<>>
  /\ artifact = [p \in Paths |-> 1]
  /\ InitCalls

\* threads that register files and call _get_indexer on one reader
NextRace ==
  \/ \E p \in Paths : AddPod5(p, "none", TRUE, TRUE)
  \/ \E t \in Threads, n \in Names : GiCall(t, n)
  \/ \E t \in Threads : GiCheck(t)
  \/ \E t \in Threads : GiLookup(t)
  \/ \E t \in Threads, lok \in BOOLEAN : GiLoad(t, lok)
  \/ \E t \in Threads : GiStore(t)
  \/ \E t \in Threads : GiReturn(t)

\* every operation of a reader, and its suspension
NextOps ==
  \/ \E p \in Paths, bok \in BOOLEAN, sok \in BOOLEAN : AddPod5(p, "none", bok, sok)
  \/ \E isdir \in BOOLEAN, badb \in SUBSET Paths, bads \in SUBSET Paths :
        AddPod5Dir(isdir, badb, bads)
  \/ \E n \in Names, lok \in BOOLEAN : GetIndexer(n, lok)
  \/ \E n \in Names, sort \in BOOLEAN, lok \in BOOLEAN : ListReadIds(n, sort, lok)
  \/ \E bad \in SUBSET Names : IterReadIds(bad)
  \/ \E n \in Names, u \in 1..NumIds, lok \in BOOLEAN : FetchRead(n, u, lok)
  \/ \E k \in BOOLEAN, fl \in BOOLEAN, ul \in BOOLEAN, bad \in SUBSET Names :
        PlanFetchOrder(k, fl, ul, bad)
  \/ PickleRoundTrip

Next == NextBuild \/ NextReg \/ NextPlan \/ NextIter \/ NextDir \/ NextBulk \/ NextOps \/ NextRace

SpecBuild == Init /\ [][NextBuild]_vars
\* the pool's workers and the caller's loop are scheduled fairly: a task that
\* can start does, a build_index() call returns, raises or is one that never
\* returns, and a save_index() call returns or raises
SpecBuildFair ==
  /\ Init /\ [][NextBuild]_vars
  /\ \A i \in 1..NumPaths :
       /\ WF_vars(TaskStart(i))
       /\ WF_vars(TaskHang(i) \/ \E ok \in BOOLEAN : TaskBuild(i, ok))
       /\ WF_vars(\E ok \in BOOLEAN : TaskSave(i, ok))
SpecReg == Init /\ [][NextReg]_vars
SpecRace == InitRace /\ [][NextRace]_vars
SpecPlan == InitPlan /\ [][NextPlan]_vars
SpecIter == Init /\ [][NextIter]_vars
SpecDir == InitDir /\ [][NextDir]_vars
SpecBulk == Init /\ [][NextBulk]_vars
SpecOps == InitOps /\ [][NextOps]_vars
Spec == Init /\ [][Next]_vars

\* ---- properties of build_pod5_index ----------------------------------------
Failed == {i \in DOMAIN tstat : tstat[i] = "failed"}
\* the current call ran without force on a directory that held no artifact
FreshCall == calls >= 1 /\ ~force /\ \A p \in files : artAtScan[p] = 0

\* C1 as stated (refuted): for every directory holding N container files and
\* no artifacts, build_pod5_index without force returns exactly the N
\* discovered files and, when it returns, an artifact exists for each of them.
C1_AllArtifactsOnReturn ==
  (bpc = "returned" /\ FreshCall) =>
    /\ result = SortedSeq(files)
    /\ \A p \in files : Exists(p)

\* C1 amended: for every directory holding N container files and no
\* artifacts, build_pod5_index without force returns exactly the N discovered
\* files and, when it returns, an artifact exists for each file whose build
\* did not fail; a failed build leaves its file without artifact only in the
\* parallel path, where it was logged and the call returned all the same.
C1_ArtifactsOfSucceededBuilds ==
  (bpc = "returned" /\ FreshCall) =>
    /\ result = SortedSeq(files)
    /\ Len(result) = Cardinality(files)
    /\ \A i \in DOMAIN tstat :
         \/ Exists(targets[i])
         \/ tstat[i] = "failed" /\ ~Sequential /\ i \in logged

\* the call returned all NumPaths files although one build failed, and the
\* other files have their artifact
C1_Witness ==
  /\ bpc = "returned" /\ FreshCall
  /\ Cardinality(files) = NumPaths
  /\ Len(result) = NumPaths
  /\ Cardinality(Failed) = 1
  /\ \A i \in DOMAIN tstat : i \notin Failed => tstat[i] = "ok" /\ Exists(targets[i])

\* C2 as stated (refuted by the code): with force=True every discovered file
\* is rebuilt regardless of prior artifacts: build_index and save_index are
\* invoked also for a file whose artifact existed, and all N files are returned.
C2_ForceRebuildsExisting ==
  (bpc = "returned" /\ force) =>
    /\ result = SortedSeq(files)
    /\ \A i \in DOMAIN tstat :
         artAtScan[targets[i]] # 0 => tstat[i] \in {"ok", "failed"}

\* C3: after a call in which every build succeeded, a second call on the same
\* directory without force returns an empty list, dispatches no task, builds
\* nothing and leaves every artifact as it was.
C3_IdempotentSkip ==
  (prevClean /\ ~force /\ bpc # "idle" /\ error # "NotADirectoryError") =>
    /\ bpc = "returned"
    /\ result = <<>>
    /\ targets = <<>> /\ tstat = <<>>
    /\ call.probes = 0
    /\ artifact = artAtScan
    /\ \A p \in files : Exists(p)

\* the second call returned on a directory all of whose NumPaths artifacts the
\* first call had built
C3_Witness ==
  /\ prevClean /\ ~force /\ bpc = "returned" /\ calls = 2
  /\ Cardinality(files) = NumPaths
  /\ ext = 0
  /\ \A p \in files : artifact[p] = 1

\* C4: in the parallel path (max_workers > 1) a failed build is caught and
\* logged, is never raised to the caller and cancels no sibling: the call
\* returns the full task list after every task was attempted, and every file
\* whose build succeeded has its artifact.
C4_ParallelFailureIsolated ==
  max_workers > 1 =>
    /\ bpc # "raised"
    /\ error = ""
    /\ logged \subseteq Failed
    /\ bpc = "returned" =>
         /\ result = targets
         /\ logged = Failed
         /\ \A i \in DOMAIN tstat :
              /\ tstat[i] \in {"ok", "skipped", "failed"}
              /\ tstat[i] = "ok" => Exists(targets[i])

\* a parallel call returned after its first task failed and a later one succeeded
C4_Witness ==
  /\ max_workers > 1 /\ bpc = "returned"
  /\ Len(targets) >= 2
  /\ tstat[1] = "failed" /\ 1 \in logged
  /\ \E j \in DOMAIN tstat : j > 1 /\ tstat[j] = "ok" /\ Exists(targets[j])

\* C5 as stated (refuted): in every dispatch mode, sequential as well as
\* parallel, a failed build does not block or cancel the other tasks of the
\* call, which are all still attempted.
C5_EveryModeAttemptsAll ==
  (bpc \in {"returned", "raised"} /\ max_workers >= 1) =>
    \A i \in DOMAIN tstat : tstat[i] # "pending"

\* C5 amended: independent-failure semantics hold in the parallel path only:
\* there every task is attempted whatever fails.  In the sequential path
\* (1 worker) the first failing build is raised to the caller at once, the
\* tasks before it are finished and the tasks sorted after it are never
\* attempted.
C5_OnlyParallelAttemptsAll ==
  /\ (max_workers > 1 /\ bpc \in {"returned", "raised"}) =>
       \A i \in DOMAIN tstat : tstat[i] # "pending"
  /\ (Sequential /\ Failed # {}) =>
       /\ bpc = "raised" /\ error = "BuildError"
       /\ \A i \in Failed :
            /\ \A j \in DOMAIN tstat : j < i => tstat[j] \in {"ok", "skipped"}
            /\ \A j \in DOMAIN tstat : j > i => tstat[j] = "pending"

\* a sequential call over NumPaths tasks was ended by the failure of its first
\* task, the others unattempted
C5_Witness ==
  /\ Sequential /\ bpc = "raised"
  /\ Len(targets) = NumPaths
  /\ tstat[1] = "failed"
  /\ \A j \in 2..NumPaths : tstat[j] = "pending"

\* C6: the medium is probed only when max_workers is None and the task set is
\* not empty; a rotating or undeterminable medium gives one worker, with the
\* tasks run in list order one at a time by the caller's loop; a non-rotating
\* medium gives os.cpu_count() workers (1 when that is None); an explicit
\* max_workers is used as given, unprobed.
C6_ConcurrencyDecision ==
  /\ [](call.op = "build_pod5_index" =>
         /\ call.probes = (IF call.mw = NoneInt /\ targets # <<>> THEN 1 ELSE 0)
         /\ (call.probes = 0) = (call.rot = "unprobed")
         /\ targets # <<>> =>
              /\ call.mw # NoneInt => max_workers = call.mw /\ call.cpu = 0
              /\ call.rot \in {"true", "none"} => Sequential /\ call.cpu = 0
              /\ call.rot = "false" =>
                   max_workers = (IF call.cpu = NoneInt THEN 1 ELSE call.cpu))
  \* the worker count stays as decided until the next call
  /\ [][calls' = calls => max_workers' = max_workers]_vars
  /\ [](targets # <<>> =>
         /\ Cardinality(InFlight) <= max_workers
         /\ Sequential =>
              /\ Cardinality(InFlight) <= 1
              /\ collected = {}
              /\ \A i \in InFlight :
                   /\ \A j \in DOMAIN tstat : j < i => tstat[j] \in {"ok", "skipped"}
                   /\ \A j \in DOMAIN tstat : j > i => tstat[j] = "pending")

\* a call with max_workers=None probed a medium it could not determine and
\* dispatched NumPaths tasks to the sequential loop
C6_Witness ==
  /\ call.op = "build_pod5_index"
  /\ call.mw = NoneInt /\ call.rot = "none" /\ call.probes = 1
  /\ Len(targets) = NumPaths
  /\ bpc = "running" /\ Sequential

\* ---- properties of Pod5RandomAccessReader -----------------------------------
\* C7: add_pod5 of a path whose artifact exists binds only name -> path: no
\* Pod5Index is constructed, neither build_index nor load_index (nor
\* save_index) is invoked, the handle map and the file system are unchanged.
C7_DeferredRegistration ==
  [][(ev'.op = "add_pod5" /\ artifact[ev'.path] # 0) =>
       /\ ev'.outcome = "ok"
       /\ ev'.name = BaseName(ev'.path)
       /\ pod5_paths' = DictSet(pod5_paths, ev'.name, ev'.path)
       /\ ev'.ext = <<>> /\ ev'.ret = 0
       /\ indexers' = indexers
       /\ loadsSince' = loadsSince
       /\ artifact' = artifact]_vars

\* a path with an artifact was registered under a name that has no handle
C7_Witness ==
  /\ ev.op = "add_pod5" /\ ev.ext = <<>> /\ ev.outcome = "ok"
  /\ Exists(ev.path)
  /\ pod5_paths[ev.name] = ev.path
  /\ ev.name \notin DOMAIN indexers

\* C8: add_pod5 of a path with no artifact builds a handle synchronously: when
\* it returns, the name has a resident handle, just built from that path; the
\* artifact exists afterwards iff persistence is enabled (the per-call
\* save_index, else the instance default) and save_index() succeeded.
C8_BuildOnRegister ==
  [][(ev'.op = "add_pod5" /\ artifact[ev'.path] = 0 /\ ev'.outcome = "ok") =>
       LET n == ev'.name
           p == ev'.path
           enabled == IF ev'.save_arg = "none" THEN save_index
                      ELSE ev'.save_arg = "true"
       IN  /\ n \in DOMAIN indexers'
           /\ indexers'[n] = [id |-> FreshId(n), path |-> p, via |-> "build"]
           /\ ev'.ret = FreshId(n)
           /\ pod5_paths'[n] = p
           /\ ev'.ext = (IF enabled THEN <<"build", "save">> ELSE <<"build">>)
           /\ (artifact'[p] # 0) = (enabled /\ ~ev'.save_failed)
           /\ \A q \in Paths \ {p} : artifact'[q] = artifact[q]]_vars

\* with the instance default off and no per-call save_index, a registration
\* built a handle and wrote no artifact
C8_Witness ==
  /\ ev.op = "add_pod5" /\ ev.outcome = "ok"
  /\ ev.save_arg = "none" /\ ~save_index
  /\ ev.ext = <<"build">>
  /\ ev.name \in DOMAIN indexers /\ indexers[ev.name].id = ev.ret
  /\ ~Exists(ev.path)

\* C9: a save_index() failure during add_pod5 does not abort the registration:
\* the call returns normally with the name bound to the path and to the built
\* handle, and every later _get_indexer of that name in this reader object
\* (until the name is registered again) returns that handle without a load.
C9_SaveFailureKeepsHandle ==
  [][/\ (ev'.op = "add_pod5" /\ ev'.save_failed) =>
          /\ ev'.outcome = "ok"
          /\ ev'.ret # 0
          /\ pod5_paths'[ev'.name] = ev'.path
          /\ ev'.name \in DOMAIN indexers'
          /\ indexers'[ev'.name] = [id |-> ev'.ret, path |-> ev'.path, via |-> "build"]
          /\ pinned'[ev'.name] = ev'.ret
     /\ (ev'.op = "get_indexer" /\ pinned[ev'.name] # 0) =>
          /\ ev'.outcome = "ok"
          /\ ev'.ret = pinned[ev'.name]
          /\ ev'.ext = <<>>
          /\ indexers' = indexers]_vars

\* a name whose registration failed to save, and whose artifact is still
\* missing, was resolved to the handle that registration built
C9_Witness ==
  /\ ev.op = "get_indexer" /\ ev.outcome = "ok"
  /\ pinned[ev.name] # 0 /\ ev.ret = pinned[ev.name]
  /\ ~Exists(pod5_paths[ev.name])

\* C10: _get_indexer loads lazily and caches: for a registered name with no
\* resident handle and an existing artifact, a successful call loads a handle
\* and stores it; a call for a name with a resident handle returns that handle
\* and loads nothing; so load_index() succeeds at most once per name in one
\* reader object (from its construction or unpickling on).
C10_LazyLoadCached ==
  /\ [][/\ (/\ ev'.op = "get_indexer"
            /\ ev'.name \notin DOMAIN indexers
            /\ ev'.name \in DOMAIN pod5_paths
            /\ artifact[pod5_paths[ev'.name]] # 0) =>
             /\ ev'.ext = <<"load">>
             /\ ev'.outcome \in {"ok", "LoadError"}
             /\ ev'.outcome = "ok" =>
                  /\ ev'.ret = FreshId(ev'.name)
                  /\ indexers' = DictSet(indexers, ev'.name,
                                         [id |-> FreshId(ev'.name), path |-> pod5_paths[ev'.name],
                                          via |-> "load"])
        /\ (ev'.op = "get_indexer" /\ ev'.name \in DOMAIN indexers) =>
             /\ ev'.outcome = "ok"
             /\ ev'.ret = indexers[ev'.name].id
             /\ ev'.ext = <<>>
             /\ indexers' = indexers
             /\ loadsSince' = loadsSince]_vars
  /\ [](\A n \in Names : loadsSince[n] <= 1)

\* a second _get_indexer of a name returned the handle the first one loaded
C10_Witness ==
  /\ ev.op = "get_indexer" /\ ev.outcome = "ok" /\ ev.ext = <<>>
  /\ ev.name \in DOMAIN indexers
  /\ indexers[ev.name].via = "load" /\ indexers[ev.name].id = ev.ret
  /\ loadsSince[ev.name] = 1

\* C11: _get_indexer of a name that was never registered raises KeyError,
\* calls no load_index() and leaves the path map, its key order, the handle map
\* and the file system unchanged.
C11_NotRegistered ==
  [][(ev'.op = "get_indexer" /\ ev'.name \notin DOMAIN pod5_paths) =>
       /\ ev'.outcome = "KeyError"
       /\ ev'.ext = <<>> /\ ev'.ret = 0
       /\ pod5_paths' = pod5_paths
       /\ path_keys' = path_keys
       /\ indexers' = indexers
       /\ artifact' = artifact]_vars

\* a lookup of an unregistered name failed in a reader that holds another
\* name with its handle
C11_Witness ==
  /\ ev.op = "get_indexer" /\ ev.outcome = "KeyError"
  /\ ev.name \notin DOMAIN pod5_paths
  /\ indexers # <<>>

\* C12: _get_indexer of a registered name with no resident handle whose
\* artifact is absent raises FileNotFoundError, stores no handle and leaves
\* the registry unchanged; the same lookup made when the artifact exists
\* calls load_index() and, when that returns, stores the handle of the bound
\* path.
C12_ArtifactUnavailable ==
  [][(/\ ev'.op = "get_indexer"
      /\ ev'.name \in DOMAIN pod5_paths
      /\ ev'.name \notin DOMAIN indexers) =>
       IF artifact[pod5_paths[ev'.name]] = 0
       THEN /\ ev'.outcome = "FileNotFoundError"
            /\ ev'.ext = <<>> /\ ev'.ret = 0
            /\ indexers' = indexers
            /\ pod5_paths' = pod5_paths
            /\ path_keys' = path_keys
            /\ artifact' = artifact
       ELSE /\ ev'.ext = <<"load">>
            /\ ev'.outcome = "ok" =>
                 /\ ev'.name \in DOMAIN indexers'
                 /\ indexers'[ev'.name].path = pod5_paths[ev'.name]
                 /\ indexers'[ev'.name].id = ev'.ret]_vars

\* the lookup of a registered name that has no handle and no artifact failed
C12_Witness ==
  /\ ev.op = "get_indexer" /\ ev.outcome = "FileNotFoundError"
  /\ ev.name \in DOMAIN pod5_paths
  /\ ev.name \notin DOMAIN indexers
  /\ ~Exists(pod5_paths[ev.name])
  /\ \A n \in Names : loadsSince[n] = 0

\* C13: pickling captures the name -> path bindings in their order (and the
\* instance default) and excludes every handle: the restored reader has the
\* same path map, the same key order and an empty handle map.
C13_SuspendExcludesHandles ==
  [][ev'.op = "pickle" =>
       /\ pod5_paths' = pod5_paths
       /\ path_keys' = path_keys
       /\ save_index' = save_index
       /\ indexers' = <<>>
       /\ ev'.dropped = Cardinality(DOMAIN indexers)
       /\ artifact' = artifact]_vars

\* a reader with two names and two handles was pickled and restored
C13_Witness ==
  /\ ev.op = "pickle" /\ ev.dropped >= 2
  /\ Len(path_keys) >= 2
  /\ indexers = <<>>

\* C14 as stated (refuted by the code): for every registered name,
\* _get_indexer right after a pickle round trip succeeds (load_index() not
\* failing) and returns a handle of the bound path, however the file was
\* registered.
C14_ResolveAfterResume ==
  [][(/\ ev.op = "pickle"
      /\ ev'.op = "get_indexer"
      /\ ev'.name \in DOMAIN pod5_paths
      /\ ev'.outcome # "LoadError") =>
       /\ ev'.outcome = "ok"
       /\ ev'.name \in DOMAIN indexers'
       /\ indexers'[ev'.name].path = pod5_paths[ev'.name]]_vars

\* ---- properties of plan_fetch_order -------------------------------------------
\* a plan_fetch_order call returned a list
Planned == ev.op = "plan_fetch_order" /\ ev.outcome = "ok"
Count(seq, x) == Cardinality({i \in DOMAIN seq : seq[i] = x})

\* C15 as stated (refuted by the code): plan_fetch_order returns a permutation
\* of its input items (same length, same multiset) in which the items of one
\* file are contiguous and, within each file, in non-decreasing physical offset.
C15_PermutationByOffset ==
  Planned =>
    /\ Len(ev.out) = Len(work)
    /\ \A x \in Range(work) \cup Range(ev.out) : Count(ev.out, x) = Count(work, x)
    /\ \A i, j, k \in DOMAIN ev.out :
         (i < j /\ j < k /\ ev.out[i].file = ev.out[k].file) =>
           ev.out[j].file = ev.out[i].file
    /\ \A i, j \in DOMAIN ev.out :
         (i < j /\ ev.out[i].file = ev.out[j].file) =>
           RowStart(pod5_paths[ev.out[i].file], ev.out[i].id)
             <= RowStart(pod5_paths[ev.out[j].file], ev.out[j].id)

\* C16 as stated (refuted): the file groups of the output come in the order in
\* which their names are first seen in the input.
C16_FirstSeenGroupOrder ==
  Planned =>
    \A k, l \in DOMAIN ev.order :
      LET fa == work[ev.order[k]].file
          fb == work[ev.order[l]].file
          first(f) == Min({i \in DOMAIN work : work[i].file = f})
      IN  (fa # fb /\ first(fa) < first(fb)) => k < l

\* C16 amended: the file groups of the output come in ascending order of their
\* file names (the sorted order of np.unique), whatever the order of the
\* input; every group is whole, and holds its items' input positions.
C16_SortedGroupOrder ==
  Planned =>
    /\ Len(ev.order) = Len(work)
    /\ Range(ev.order) = DOMAIN work
    /\ \A k, l \in DOMAIN ev.order :
         k < l => work[ev.order[k]].file <= work[ev.order[l]].file

\* MaxItems items were planned whose first-seen file is not the least one
C16_Witness ==
  /\ Planned /\ Len(work) = MaxItems
  /\ \E i \in DOMAIN work : work[i].file < work[1].file
  /\ work[ev.order[1]].file < work[1].file

\* C17 as stated (refuted by the code): the sort within a file is stable: two
\* items of one file whose reads have equal offsets keep their input order.
C17_StableWithinFile ==
  Planned =>
    \A k, l \in DOMAIN ev.order :
      (/\ k < l
       /\ work[ev.order[k]].file = work[ev.order[l]].file
       /\ work[ev.order[k]].id = work[ev.order[l]].id) => ev.order[k] < ev.order[l]

\* the two plan_fetch_order calls of a step pair are given the same keys, one
\* by a key function and one by the two lists
KeyMode(a) == a.key /\ ~a.filenames.given /\ ~a.uuids.given
ListMode(a) == ~a.key /\ a.filenames.given /\ a.uuids.given

\* C18: for the same items, plan_fetch_order called with a key function and
\* called with the lists of the same keys yield the same output order.
C18_KeyAndListsAgree ==
  [][(/\ ev.op = "plan_fetch_order" /\ ev'.op = "plan_fetch_order"
      /\ ev.outcome = "ok"
      /\ \/ KeyMode(ev.args) /\ ListMode(ev'.args)
         \/ ListMode(ev.args) /\ KeyMode(ev'.args)) =>
       /\ ev'.outcome = "ok"
       /\ ev'.order = ev.order
       /\ ev'.out = ev.out]_vars

\* a call with the two lists reordered MaxItems items, on handles that an
\* earlier call had loaded
C18_Witness ==
  /\ Planned /\ ListMode(ev.args)
  /\ Len(work) = MaxItems
  /\ ev.order # [i \in 1..MaxItems |-> i]
  /\ ev.ext = <<"get_signal_row_starts">>
  /\ \E n \in Names : loadsSince[n] = 1

\* neither a key function nor both lists
Unspecified(a) == ~a.key /\ ~(a.filenames.given /\ a.uuids.given)

Iterated == ev.op = "iter_read_ids" /\ ev.outcome = "ok"
Listed(sort) == ev.op = "list_read_ids" /\ ev.outcome = "ok" /\ ev.args.sort = sort
Pos(seq, x) == CHOOSE i \in DOMAIN seq : seq[i] = x
\* every resident handle reads the container its name is bound to
HandlesCurrent == \A n \in DOMAIN indexers : indexers[n].path = pod5_paths[n]

\* C20 as stated (refuted): a completed iter_read_ids yields every (file name,
\* read id) pair of every registered file exactly once and nothing else,
\* visits the files in registration order and, within a file, in
\* non-decreasing physical offset; list_read_ids with sort=True returns a
\* permutation of the reads of the file in non-decreasing physical offset.
C20_IterateAllInPhysicalOrder ==
  /\ Iterated =>
       /\ \A n \in Range(path_keys) : \A u \in Range(ReadIds(pod5_paths[n])) :
            Count(ev.out, <<n, u>>) = 1
       /\ \A k \in DOMAIN ev.out :
            /\ ev.out[k][1] \in Range(path_keys)
            /\ ev.out[k][2] \in Range(ReadIds(pod5_paths[ev.out[k][1]]))
       /\ \A i, j \in DOMAIN ev.out : i < j =>
            /\ Pos(path_keys, ev.out[i][1]) <= Pos(path_keys, ev.out[j][1])
            /\ ev.out[i][1] = ev.out[j][1] =>
                 RowStart(pod5_paths[ev.out[i][1]], ev.out[i][2])
                   <= RowStart(pod5_paths[ev.out[j][1]], ev.out[j][2])
  /\ Listed(TRUE) =>
       /\ \A u \in Range(ReadIds(pod5_paths[ev.name])) : Count(ev.out, u) = 1
       /\ Len(ev.out) = NumReads(pod5_paths[ev.name])
       /\ \A i, j \in DOMAIN ev.out : i < j =>
            RowStart(pod5_paths[ev.name], ev.out[i])
              <= RowStart(pod5_paths[ev.name], ev.out[j])

\* where every resident handle reads the container its name is bound to, the
\* statement of C20 holds
C20_WhenHandlesCurrent == HandlesCurrent => C20_IterateAllInPhysicalOrder
\* an iteration over two registered files that yielded pairs of both
C20_Witness ==
  /\ Iterated
  /\ HandlesCurrent
  /\ Len(path_keys) = 2
  /\ \A n \in Range(path_keys) : \E k \in DOMAIN ev.out : ev.out[k][1] = n

\* ---- properties of add_pod5_dir and of build_pod5_index on a directory --------
\* C21: a build_pod5_index call and an add_pod5_dir call whose argument is not
\* a directory raise NotADirectoryError, and do so before any discovery,
\* probe, build or registration: no target is selected, the medium is not
\* probed, no Pod5Index method runs, and the registry and the artifacts are
\* as they were.
C21_NotADirectory ==
  [][ /\ \A mw \in MwChoices, f \in BOOLEAN, rot \in RotChoices, cpu \in CpuChoices :
           BuildCall(FALSE, mw, f, rot, cpu) =>
             /\ bpc' = "raised" /\ error' = "NotADirectoryError"
             /\ targets' = <<>> /\ tstat' = <<>>
             /\ call'.probes = 0 /\ call'.cpu = 0
             /\ artifact' = artifact
             /\ UNCHANGED rvars
      /\ \A badb \in SUBSET Paths, bads \in SUBSET Paths :
           AddPod5Dir(FALSE, badb, bads) =>
             /\ ev'.outcome = "NotADirectoryError"
             /\ ev'.ext = <<>> /\ ev'.out = <<>>
             /\ artifact' = artifact
             /\ UNCHANGED rvars ]_vars
\* both calls have failed on a path that holds container files
C21_Witness ==
  /\ files # {}
  /\ bpc = "raised" /\ error = "NotADirectoryError"
  /\ ev.op = "add_pod5_dir" /\ ev.outcome = "NotADirectoryError"

\* C22: on a directory that holds no container file, build_pod5_index returns
\* the empty list without probing the medium, starting a build or creating an
\* artifact, and add_pod5_dir returns without error and leaves the registry
\* unchanged.
C22_EmptyDirectory ==
  [][ files = {} =>
      /\ \A mw \in MwChoices, f \in BOOLEAN, rot \in RotChoices, cpu \in CpuChoices :
           BuildCall(TRUE, mw, f, rot, cpu) =>
             /\ bpc' = "returned" /\ error' = "" /\ result' = <<>>
             /\ targets' = <<>> /\ tstat' = <<>>
             /\ call'.probes = 0 /\ call'.cpu = 0
             /\ artifact' = artifact
             /\ UNCHANGED rvars
      /\ \A badb \in SUBSET Paths, bads \in SUBSET Paths :
           AddPod5Dir(TRUE, badb, bads) =>
             /\ ev'.outcome = "ok"
             /\ ev'.ext = <<>> /\ ev'.out = <<>>
             /\ artifact' = artifact
             /\ UNCHANGED rvars ]_vars
\* both calls have returned on an empty directory
C22_Witness ==
  /\ files = {}
  /\ bpc = "returned" /\ call.op = "none"
  /\ ev.op = "add_pod5_dir" /\ ev.outcome = "ok"

\* the sorted files up to and including file p
UpTo(S, p) == SortedSeq({q \in S : q <= p})
\* the name of path_keys bound first, of two names, is the one whose first
\* file sorts first
FirstFile(n) == Min({p \in files : BaseName(p) = n})

\* C23: an add_pod5_dir call that returns has applied add_pod5 to every
\* discovered file in path-sorted order: every discovered file's base name
\* is bound, and when the registry was empty before the call the registration
\* order is the order of the sorted paths.
C23_SortedRegistration ==
  [][ (ev'.op = "add_pod5_dir" /\ ev'.outcome = "ok") =>
        /\ ev'.out = SortedSeq(files)
        /\ \A p \in files : BaseName(p) \in DOMAIN pod5_paths'
        /\ path_keys = <<>> =>
             /\ Range(path_keys') = {BaseName(p) : p \in files}
             /\ \A i, j \in DOMAIN path_keys' :
                  i < j => FirstFile(path_keys'[i]) < FirstFile(path_keys'[j]) ]_vars
\* a fresh reader has registered a directory of several files
C23_Witness ==
  /\ ev.op = "add_pod5_dir" /\ ev.outcome = "ok"
  /\ files = Paths
  /\ Len(path_keys) = NumNames
  /\ Len(ev.out) = NumPaths

\* C24 as stated (refuted): an add_pod5_dir call on a directory completes and
\* registers all files even when the index of one of them cannot be built.
C24_BulkRegistrationNeverFails ==
  (ev.op = "add_pod5_dir" /\ ev.outcome # "NotADirectoryError") =>
    /\ ev.outcome = "ok"
    /\ \A p \in files : BaseName(p) \in DOMAIN pod5_paths

\* C24 amended: add_pod5_dir defers every file whose artifact exists, so such
\* a file cannot fail the call; a file without an artifact is built during
\* the call, and where a build raises, the call raises that error at the first
\* such file, after add_pod5 was applied to the sorted files up to and
\* including it and to no file after it.  Otherwise the call returns having
\* registered every file.
C24_EagerBuildFailsTheCall ==
  [][ \A badb \in SUBSET Paths, bads \in SUBSET Paths :
        AddPod5Dir(TRUE, badb, bads) =>
          /\ \A p \in badb : ~Exists(p)
          /\ badb = {} =>
               /\ ev'.outcome = "ok"
               /\ ev'.out = SortedSeq(files)
               /\ \A p \in files : BaseName(p) \in DOMAIN pod5_paths'
               /\ (\A p \in files : Exists(p)) => ev'.ext = <<>> /\ indexers' = indexers
          /\ badb # {} =>
               /\ ev'.outcome = "BuildError"
               /\ ev'.path = Min(badb)
               /\ ev'.out = UpTo(files, Min(badb))
               /\ \A n \in Names :
                    (\A p \in Range(ev'.out) : BaseName(p) # n) =>
                      /\ (n \in DOMAIN pod5_paths') = (n \in DOMAIN pod5_paths)
                      /\ n \in DOMAIN pod5_paths => pod5_paths'[n] = pod5_paths[n] ]_vars
\* a call that raised at a file that is not the last one of the directory
C24_Witness ==
  /\ ev.op = "add_pod5_dir" /\ ev.outcome = "BuildError"
  /\ ev.path < Max(files)
  /\ \E n \in Names : n \notin DOMAIN pod5_paths

\* ---- properties of the registry under re-registration --------------------------
\* C25 as stated (refuted): the registry holds one entry per name, an add_pod5
\* call binds the name to its path, and a handle that _get_indexer returns
\* reads the container the name is bound to, also after the name was bound
\* to another path before.
C25_LastRegistrationWins ==
  /\ \A n \in DOMAIN pod5_paths : Count(path_keys, n) = 1
  /\ ev.op = "add_pod5" => pod5_paths[ev.name] = ev.path
  /\ (ev.op = "get_indexer" /\ ev.outcome = "ok") =>
       indexers[ev.name].path = pod5_paths[ev.name]
\* the same of the registration itself (refuted as well): an add_pod5 call
\* that returns leaves no handle of another container under its name
C25_RegisterReplacesHandle ==
  [][ (ev'.op = "add_pod5" /\ ev'.outcome = "ok" /\ ev'.name \in DOMAIN indexers') =>
        indexers'[ev'.name].path = ev'.path ]_vars

C27_JoinBeforeReturn ==
  [][ (bpc = "running" /\ max_workers > 1) =>
        /\ bpc' \in {"running", "returned"}
        /\ bpc' = "returned" =>
             /\ \A i \in DOMAIN tstat : tstat[i] \in {"ok", "skipped", "failed"}
             /\ collected = DOMAIN tstat
             /\ result' = targets
        /\ \A i \in DOMAIN tstat :
             tstat[i] = "pending" => tstat'[i] \in {"pending", "building", "skipped"} ]_vars
\* a parallel call has returned although its last task failed
C27_Witness ==
  /\ bpc = "returned" /\ max_workers > 1
  /\ Len(targets) = NumPaths
  /\ tstat[NumPaths] = "failed"
  /\ \A i \in 1..(NumPaths - 1) : tstat[i] = "ok"

\* how far a task has got
Rank(st) == CASE st = "pending" -> 0 [] st \in {"building", "hung"} -> 1
              [] st = "built" -> 2 [] OTHER -> 3
\* the tasks a worker is executing
Executing == {i \in DOMAIN tstat : tstat[i] \in {"building", "hung", "built"}}

\* C28: in a parallel build_pod5_index call every task of the task set is
\* taken by a worker and run once: a task never returns to an earlier stage,
\* a finished task stays as it finished, no task is left unstarted when the
\* call returns, and at no time are more than max_workers tasks executing.
C28_OncePerTaskBoundedPool ==
  /\ [](max_workers > 1 =>
          /\ Cardinality(Executing) <= max_workers
          /\ DOMAIN tstat = DOMAIN targets
          /\ bpc = "returned" => \A i \in DOMAIN tstat : Rank(tstat[i]) = 3)
  /\ [][ (max_workers > 1 /\ calls' = calls) =>
           /\ targets' = targets
           /\ \A i \in DOMAIN tstat :
                /\ Rank(tstat'[i]) >= Rank(tstat[i])
                /\ Rank(tstat[i]) = 3 => tstat'[i] = tstat[i] ]_vars
\* the pool is full while a task waits for a worker
C28_Witness ==
  /\ bpc = "running" /\ max_workers > 1
  /\ Cardinality(Executing) = max_workers
  /\ \E i \in DOMAIN tstat : tstat[i] = "pending"

\* task h is the only one of the call whose build never returns
OnlyHung(h) ==
  /\ bpc = "running"
  /\ h \in DOMAIN tstat /\ tstat[h] = "hung"
  /\ \A k \in DOMAIN tstat : k # h => tstat[k] # "hung"

\* C29: under fair scheduling, in a call with two or more workers a build
\* that never returns holds only its own worker: every other task of the
\* call is started and finishes (unless its own build hangs as well).  In the
\* sequential path no task sorted after a hung one is ever started.
C29_HangStallsOneWorker ==
  /\ \A h \in 1..NumPaths, j \in 1..NumPaths :
       (OnlyHung(h) /\ max_workers >= 2 /\ j \in DOMAIN tstat /\ j # h)
         ~> (~OnlyHung(h) \/ (j \in DOMAIN tstat /\ Rank(tstat[j]) = 3))
  /\ [](\A h \in DOMAIN tstat :
          (Sequential /\ tstat[h] = "hung") =>
            \A j \in DOMAIN tstat : j > h => tstat[j] = "pending")
  /\ [][ \A h \in DOMAIN tstat : tstat[h] = "hung" => UNCHANGED <<bpc, calls>> /\ tstat'[h] = "hung" ]_vars
\* the first build of a parallel call hangs and every other task has finished
C29_Witness ==
  /\ OnlyHung(1) /\ max_workers >= 2
  /\ Len(targets) = NumPaths
  /\ \A j \in 2..NumPaths : Rank(tstat[j]) = 3

\* ---- properties of the artifact check of a task ---------------------------------
\* C30: a task looks for its artifact when it starts, not when the directory
\* was scanned: if the artifact is there by then, the task is skipped, with
\* no build and no save, the artifact stays as it is, and the file is still
\* in the returned list; otherwise the task builds.  Nothing is checked or
\* locked after that, so a build that started may end by writing an artifact
\* that another process has written in the meantime.
C30_RecheckBeforeBuild ==
  /\ [][ \A i \in DOMAIN tstat :
           (calls' = calls /\ tstat[i] = "pending" /\ tstat'[i] # "pending") =>
             /\ tstat'[i] = (IF Exists(targets[i]) THEN "skipped" ELSE "building")
             /\ artifact' = artifact ]_vars
  /\ [][ \A i \in DOMAIN tstat :
           (calls' = calls /\ tstat[i] = "skipped") =>
             /\ tstat'[i] = "skipped"
             /\ artifact'[targets[i]] = artifact[targets[i]] ]_vars
  /\ [](bpc = "returned" /\ calls >= 1 /\ targets # <<>> => result = targets)
\* a call without force has returned a file that it skipped because the
\* artifact appeared after the scan
C30_Witness ==
  /\ bpc = "returned" /\ ~force
  /\ \E i \in DOMAIN tstat :
       /\ tstat[i] = "skipped"
       /\ artAtScan[targets[i]] = 0
       /\ artifact[targets[i]] = 1
       /\ targets[i] \in Range(result)
\* the race: a task that found no artifact wrote over the artifact another
\* process wrote while the task was building
C30_BothBuilt ==
  \E i \in DOMAIN tstat :
    /\ tstat[i] = "ok"
    /\ artAtScan[targets[i]] = 0
    /\ ext = 1
    /\ artifact[targets[i]] = 2

\* ---- properties of plan_fetch_order on small inputs ----------------------------
\* the call was given a key function or both lists
ValidArgs(a) == a.key \/ (a.filenames.given /\ a.uuids.given)
\* the number of items of the work list that name file n
GroupSize(n) == Cardinality({i \in DOMAIN work : work[i].file = n})

\* a plan_fetch_order call on a non-empty list resolves a handle only for the
\* files that two or more items name: a file named once gets no handle and no
\* get_signal_row_starts call, and when every file is named once the call
\* returns without touching the registry, whatever is registered
C32_SingleGroupsBypass ==
  [][ (ev'.op = "plan_fetch_order" /\ work # <<>> /\ ValidArgs(ev'.args)) =>
        /\ \A n \in Names :
             GroupSize(n) < 2 => (n \in DOMAIN indexers') = (n \in DOMAIN indexers)
        /\ Count(ev'.ext, "get_signal_row_starts")
             <= Cardinality({n \in Names : GroupSize(n) >= 2})
        /\ (\A n \in Names : GroupSize(n) <= 1) =>
             /\ ev'.outcome = "ok"
             /\ ev'.ext = <<>>
             /\ indexers' = indexers ]_vars

\* C32 as stated (refuted): the same, and a work list of a single item is
\* returned unchanged.
C32_SingleItemUnchanged ==
  [][ (ev'.op = "plan_fetch_order" /\ work # <<>> /\ ValidArgs(ev'.args)) =>
        /\ \A n \in Names :
             GroupSize(n) < 2 => (n \in DOMAIN indexers') = (n \in DOMAIN indexers)
        /\ (\A n \in Names : GroupSize(n) <= 1) =>
             /\ ev'.outcome = "ok"
             /\ ev'.ext = <<>>
             /\ indexers' = indexers
        /\ Len(work) = 1 => ev'.out = work ]_vars

C34_HandlesAreBound == DOMAIN indexers \subseteq DOMAIN pod5_paths

\* an operation has just raised on a reader that holds a resident handle and
\* also a bound name without one
C34_Witness ==
  /\ ev.op # "none"
  /\ ev.outcome # "ok"
  /\ DOMAIN indexers # {}
  /\ DOMAIN indexers # DOMAIN pod5_paths

\* ---- properties of a registration whose build fails ----------------------------
\* the last step was a registration that raised the error of build_index()
BuildFailed(e) == e.op \in {"add_pod5", "add_pod5_dir"} /\ e.outcome = "BuildError"
\* the names of the files a pass handled before the file it failed at
EarlierNames(e) == {BaseName(q) : q \in Range(e.out) \ {e.path}}
\* a _get_indexer call for a bound name that has neither handle nor artifact
\* raises FileNotFoundError and invokes nothing: no build is tried again
NoRetry ==
  (/\ ev'.op = "get_indexer"
   /\ ev'.name \in DOMAIN pod5_paths
   /\ ev'.name \notin DOMAIN indexers
   /\ ~Exists(pod5_paths[ev'.name])) =>
     /\ ev'.outcome = "FileNotFoundError"
     /\ ev'.ext = <<>>
     /\ UNCHANGED <<indexers, pod5_paths, artifact>>
\* the files of the directory sorted after the one a pass failed at are not
\* registered by the pass
LaterFilesSkipped ==
  (ev'.op = "add_pod5_dir" /\ ev'.outcome = "BuildError") =>
     /\ ev'.out = UpTo(files, ev'.path)
     /\ \A n \in Names :
          (\A p \in Range(ev'.out) : BaseName(p) # n) =>
            /\ (n \in DOMAIN pod5_paths') = (n \in DOMAIN pod5_paths)
            /\ n \in DOMAIN pod5_paths => pod5_paths'[n] = pod5_paths[n]

\* C35 as stated (refuted): when the build of a registration raises, the call
\* raises, the name is bound to the path and has no handle, and the path has
\* no artifact; a later _get_indexer of such a name raises FileNotFoundError
\* without building, and a directory pass registers no file sorted after the
\* failing one.
C35_FailedBuildLeavesNoHandle ==
  [][ /\ BuildFailed(ev') =>
           /\ BaseName(ev'.path) \in DOMAIN pod5_paths'
           /\ pod5_paths'[BaseName(ev'.path)] = ev'.path
           /\ BaseName(ev'.path) \notin DOMAIN indexers'
           /\ artifact'[ev'.path] = 0
      /\ NoRetry
      /\ LaterFilesSkipped ]_vars

\* C35 amended: when the build of a registration raises, the call raises, the
\* name is bound to the path, the call has stored no handle and written no
\* artifact for it; a name that had no handle before (and that no earlier file
\* of the pass carries) has none after, while a handle that was resident stays.
\* A _get_indexer of a bound name without handle and artifact raises
\* FileNotFoundError without building, and a directory pass registers no file
\* sorted after the failing one.
C35_BindingSurvivesFailedBuild ==
  [][ /\ BuildFailed(ev') =>
           /\ BaseName(ev'.path) \in DOMAIN pod5_paths'
           /\ pod5_paths'[BaseName(ev'.path)] = ev'.path
           /\ artifact'[ev'.path] = 0
           /\ artifact'[ev'.path] = artifact[ev'.path]
           /\ (BaseName(ev'.path) \notin DOMAIN indexers
               /\ BaseName(ev'.path) \notin EarlierNames(ev')) =>
                 BaseName(ev'.path) \notin DOMAIN indexers'
           /\ (BaseName(ev'.path) \in DOMAIN indexers
               /\ BaseName(ev'.path) \notin EarlierNames(ev')) =>
                 /\ BaseName(ev'.path) \in DOMAIN indexers'
                 /\ indexers'[BaseName(ev'.path)] = indexers[BaseName(ev'.path)]
      /\ NoRetry
      /\ LaterFilesSkipped ]_vars

\* a name was left bound without handle or artifact by a registration that
\* raised, and the next _get_indexer of it raised FileNotFoundError with no
\* build tried
C35_Witness ==
  /\ ev.op = "get_indexer"
  /\ ev.outcome = "FileNotFoundError"
  /\ ev.ext = <<>>
  /\ ev.name \in DOMAIN pod5_paths
  /\ ev.name \notin DOMAIN indexers
  /\ ~Exists(pod5_paths[ev.name])

\* ---- properties of _get_indexer under concurrent callers -----------------------
\* thread t has returned from a _get_indexer call in which it loaded a handle
LoadedAndDone(t) == threads[t].pc = "done" /\ threads[t].h # NoHandle

\* C31: threads that call _get_indexer for one bound name with no resident
\* handle may each pass the check of line 198 and each load the artifact.
\* Whatever they do: a store binds the storing thread's handle under the name,
\* replacing what was there, and no other step of a thread changes the handle
\* map, so the handle stored last stays; a call that does not raise returns a
\* loaded handle of that name; and once two threads that both loaded one name
\* have returned, the name has one handle, which is one of the two, and each
\* thread holds one of the two.
C31_RacingLoadsLastStoreWins ==
  /\ [][ \A t \in Threads :
           threads'[t] # threads[t] =>
             IF threads[t].pc = "store"
             THEN /\ threads[t].name \in DOMAIN indexers'
                  /\ indexers'[threads[t].name] = threads[t].h
                  /\ \A n \in DOMAIN indexers \ {threads[t].name} :
                       n \in DOMAIN indexers' /\ indexers'[n] = indexers[n]
             ELSE indexers' = indexers ]_vars
  /\ [](\A t \in Threads :
          (threads[t].pc = "done" /\ threads[t].outcome = "ok") =>
            /\ threads[t].ret.via = "load"
            /\ BaseName(threads[t].ret.path) = threads[t].name
            /\ threads[t].name \in DOMAIN indexers)
  /\ [](\A t, u \in Threads :
          (t # u /\ LoadedAndDone(t) /\ LoadedAndDone(u)
           /\ threads[t].name = threads[u].name) =>
            /\ indexers[threads[t].name] \in {threads[t].h, threads[u].h}
            /\ threads[t].ret \in {threads[t].h, threads[u].h})

\* two threads have both loaded the artifact of one name and returned: the
\* first was handed its own handle, and the handle of the second, stored
\* last, is the one left under the name
C31_Witness ==
  /\ LoadedAndDone(1) /\ LoadedAndDone(2)
  /\ threads[1].name = threads[2].name
  /\ threads[1].h # threads[2].h
  /\ threads[1].ret = threads[1].h
  /\ threads[2].ret = threads[2].h
  /\ indexers[threads[1].name] = threads[2].h

====
